---- MODULE Spec2Model ----
(***************************************************************************)
(* Kinematic-chain node graph of src/src/node.rs.                          *)
(*                                                                         *)
(* A vertex (NodeImpl) is a record; a Node handle is the vertex' index.    *)
(* Option<T> is a sequence of length 0 (None) or 1 (Some(x)).  Positions   *)
(* are integers (the scalar type T is abstracted to exact arithmetic).     *)
(* Each operation of Node is one action; the call, the value it returned   *)
(* and the vertex records it started from are kept in `last`.  `held` is   *)
(* the set of vertices the caller still holds a Node handle of.  A         *)
(* transform (Isometry3) is an integer, composed by addition, identity 0.  *)
(***************************************************************************)
EXTENDS Integers, Sequences, FiniteSets, TLC

VARIABLES nodes, last, calls, held

vars == <<nodes, last, calls, held>>

\* ------------------------------------------------------------------ bounds
NumNodes == 3
MaxChildren == 3
MaxMimic == 3
MaxChain == 3
MaxCalls == 3

\* limits used by the documentation tests: (0.0..=2.0)
LimLo == 0
LimHi == 2

Nodes == 1..NumNodes
\* positions a caller passes: below, inside and above the limits
Vals == {LimLo - 1, 1, LimHi + 1}
\* Mimic::new(multiplier, offset)
Laws == {<<1, 0>>, <<2, 1>>}

\* transforms a caller passes to set_offset
Offsets == {1}
\* Option<Link> values a caller passes to set_child_link
Links == {<<>>, <<1>>}

None == <<>>
Some(x) == <<x>>
Identity == 0

\* ------------------------------------------------------------------ Joint
\* JointBuilder options: <<joint_type, limits>>
LinearLimited == <<"Linear", Some(<<LimLo, LimHi>>)>>
LinearFree == <<"Linear", None>>
Fixed == <<"Fixed", None>>
\* the assemblies explored: the builder options of vertex 1, 2, 3, ...
Robots ==
  { <<LinearLimited, LinearLimited, LinearLimited>>,
    <<LinearLimited, LinearLimited, Fixed>>,
    <<LinearLimited, LinearFree, Fixed>>,
    <<LinearFree, LinearFree, Fixed>> }
OptionsOf(r, n) == r[((n - 1) % Len(r)) + 1]

Ok == [kind |-> "Ok", from |-> 0, to |-> 0]
OutOfLimitError == [kind |-> "OutOfLimitError", from |-> 0, to |-> 0]
JointTypeError == [kind |-> "JointTypeError", from |-> 0, to |-> 0]
MimicError(f, t) == [kind |-> "MimicError", from |-> f, to |-> t]
Panic == [kind |-> "panic", from |-> 0, to |-> 0]
Unit == [kind |-> "unit", from |-> 0, to |-> 0]
\* a returned bool and a returned Option<Isometry3>
BoolRes(b) == [kind |-> IF b THEN "true" ELSE "false", from |-> 0, to |-> 0]
OptionRes(o) ==
  IF o = None THEN [kind |-> "none", from |-> 0, to |-> 0]
  ELSE [kind |-> "some", from |-> o[1], to |-> 0]

\* Joint::new + JointBuilder::finalize: position zero, identity offset,
\* no cached transform
NewJoint(name, jt, lim) ==
  [name |-> name, joint_type |-> jt, limits |-> lim,
   position |-> 0, offset |-> Identity, world_transform |-> None]

\* Joint::set_position: type check, then limit check, then store
JointSetPosition(j, position) ==
  IF j.joint_type = "Fixed"
    THEN [joint |-> j, res |-> JointTypeError]
  ELSE IF j.limits # None
          /\ ~(j.limits[1][1] <= position /\ position <= j.limits[1][2])
    THEN [joint |-> j, res |-> OutOfLimitError]
  ELSE [joint |-> [j EXCEPT !.position = position], res |-> Ok]

\* Joint::set_position_unchecked: store, no validation
JointSetPositionUnchecked(j, position) == [j EXCEPT !.position = position]

\* Mimic::mimic_position: multiplier * from + offset
MimicPosition(m, from) == m[1] * from + m[2]

\* Joint::set_offset
JointSetOffset(j, trans) == [j EXCEPT !.offset = trans]

\* Joint::world_transform: the cached pose
JointWorldTransform(j) == j.world_transform

\* Joint::local_transform: the offset, then the motion of the joint
JointLocalTransform(j) ==
  j.offset + (IF j.joint_type = "Linear" THEN j.position ELSE Identity)

\* Joint::set_world_transform
JointSetWorldTransform(j, trans) == [j EXCEPT !.world_transform = Some(trans)]

\* ------------------------------------------------------------------- Node
\* Node::new
NewNode(j) ==
  [parent |-> None, children |-> <<>>, joint |-> j,
   mimic_parent |-> None, mimic_children |-> <<>>, mimic |-> None,
   child_link |-> None]

\* RefCell::borrow_mut succeeds iff no borrow of the vertex is open;
\* RefCell::borrow succeeds iff no mutable borrow of the vertex is open.
\* No accessor guard is held by the caller, so the open borrows are the
\* mutable ones the running operation holds itself.
BorrowMutOk(open, n) == n \notin open
BorrowOk(open, n) == n \notin open

IsRoot(ns, n) == ns[n].parent = None
IsEnd(ns, n) == ns[n].children = <<>>

\* mutant: the child is put in front of the parent's children
SetParentPrepend(ns, self, parent) ==
  LET ns1 == [ns EXCEPT ![self].parent = Some(parent)]
  IN  [ns1 EXCEPT ![parent].children = <<self>> \o @]

\* Node::set_parent: two statements, each with its own temporary borrow
SetParent(ns, self, parent) ==
  LET ns1 == [ns EXCEPT ![self].parent = Some(parent)]
  IN  [ns1 EXCEPT ![parent].children = Append(@, self)]

\* mutant: the macro links every later node to the first one
RECURSIVE ConnectToHead(_, _)
ConnectToHead(ns, seq) ==
  IF Len(seq) < 2 THEN ns
  ELSE ConnectToHead(SetParent(ns, seq[2], seq[1]), <<seq[1]>> \o Tail(Tail(seq)))

\* connect!: $y.set_parent(&$x); connect!($y => rest)
RECURSIVE Connect(_, _)
Connect(ns, seq) ==
  IF Len(seq) < 2 THEN ns
  ELSE Connect(SetParent(ns, seq[2], seq[1]), Tail(seq))

\* mutant: the loop stores through the unchecked setter
RECURSIVE PropagateMimicUnchecked(_, _, _, _)
PropagateMimicUnchecked(ns, self, position, i) ==
  IF i > Len(ns[self].mimic_children) THEN [nodes |-> ns, res |-> Ok]
  ELSE
    LET child == ns[self].mimic_children[i]
        mimic == ns[child].mimic
    IN
    IF child = self \/ mimic = None THEN [nodes |-> ns, res |-> Panic]
    ELSE PropagateMimicUnchecked(
           [ns EXCEPT ![child].joint =
              JointSetPositionUnchecked(@, MimicPosition(mimic[1], position))],
           self, position, i + 1)

\* mutant: a failing mimic-child is skipped and the loop goes on
RECURSIVE PropagateMimicSkip(_, _, _, _)
PropagateMimicSkip(ns, self, position, i) ==
  IF i > Len(ns[self].mimic_children)
    THEN [nodes |-> ns, res |-> Ok]
  ELSE
    LET child == ns[self].mimic_children[i]
        mimic == ns[child].mimic
    IN
    IF child = self \/ mimic = None THEN [nodes |-> ns, res |-> Panic]
    ELSE
      LET r == JointSetPosition(ns[child].joint,
                                MimicPosition(mimic[1], position))
          rest == PropagateMimicSkip([ns EXCEPT ![child].joint = r.joint],
                                     self, position, i + 1)
      IN  IF r.res = Ok THEN rest ELSE [nodes |-> rest.nodes, res |-> r.res]

\* the mimic-children of c are given their values for c at position `from`
RECURSIVE DriveOnce(_, _, _, _)
DriveOnce(ns, c, from, i) ==
  IF i > Len(ns[c].mimic_children) THEN ns
  ELSE
    LET g == ns[c].mimic_children[i] IN
    IF ns[g].mimic = None THEN DriveOnce(ns, c, from, i + 1)
    ELSE DriveOnce(
           [ns EXCEPT ![g].joint =
              JointSetPosition(@, MimicPosition(ns[g].mimic[1], from)).joint],
           c, from, i + 1)

\* mutant: the loop also drives the mimic-children of each mimic-child
RECURSIVE PropagateMimicDeep(_, _, _, _)
PropagateMimicDeep(ns, self, position, i) ==
  IF i > Len(ns[self].mimic_children) THEN [nodes |-> ns, res |-> Ok]
  ELSE
    LET child == ns[self].mimic_children[i]
        mimic == ns[child].mimic
    IN
    IF child = self \/ mimic = None THEN [nodes |-> ns, res |-> Panic]
    ELSE
      LET to == MimicPosition(mimic[1], position)
          r == JointSetPosition(ns[child].joint, to)
      IN
      IF r.res # Ok THEN [nodes |-> ns, res |-> r.res]
      ELSE PropagateMimicDeep(
             DriveOnce([ns EXCEPT ![child].joint = r.joint], child, to, 1),
             self, position, i + 1)

\* Node::set_position, the loop over node.mimic_children from entry i on.
\* `open` holds the vertices mutably borrowed so far (self, line 185).
RECURSIVE PropagateMimic(_, _, _, _)
PropagateMimic(ns, self, position, i) ==
  IF i > Len(ns[self].mimic_children) THEN [nodes |-> ns, res |-> Ok]
  ELSE
    LET child == ns[self].mimic_children[i]
        open == {self}
    IN
    IF ~BorrowMutOk(open, child) THEN [nodes |-> ns, res |-> Panic]
    ELSE
      LET mimic == ns[child].mimic IN
      IF mimic # None THEN
        LET r == JointSetPosition(ns[child].joint,
                                  MimicPosition(mimic[1], position))
        IN
        IF r.res # Ok THEN [nodes |-> ns, res |-> r.res]
        ELSE PropagateMimic([ns EXCEPT ![child].joint = r.joint],
                            self, position, i + 1)
      ELSE
        \* self.joint() and child.joint() take shared borrows while the
        \* mutable borrows of self and child are still open
        IF BorrowOk(open \cup {child}, self) /\ BorrowOk(open \cup {child}, child)
          THEN [nodes |-> ns, res |-> MimicError(ns[self].joint.name,
                                                 ns[child].joint.name)]
          ELSE [nodes |-> ns, res |-> Panic]

\* mutant: the mimic-children are not driven
SetPositionNoPropagate(ns, self, position) ==
  IF ns[self].mimic_parent # None THEN [nodes |-> ns, res |-> Ok]
  ELSE
    LET r == JointSetPosition(ns[self].joint, position) IN
    [nodes |-> [ns EXCEPT ![self].joint = r.joint], res |-> r.res]

\* mutant: a mimic-driven node is not skipped
SetPositionDriven(ns, self, position) ==
  LET r == JointSetPosition(ns[self].joint, position) IN
  IF r.res # Ok THEN [nodes |-> ns, res |-> r.res]
  ELSE PropagateMimic([ns EXCEPT ![self].joint = r.joint], self, position, 1)

\* mutant: the node's own joint is set through the unchecked setter
SetPositionOwnUnchecked(ns, self, position) ==
  IF ns[self].mimic_parent # None THEN [nodes |-> ns, res |-> Ok]
  ELSE PropagateMimic(
         [ns EXCEPT ![self].joint = JointSetPositionUnchecked(@, position)],
         self, position, 1)

\* mutant: the mimic-children are driven before the node's own joint is set
SetPositionChildrenFirst(ns, self, position) ==
  IF ns[self].mimic_parent # None THEN [nodes |-> ns, res |-> Ok]
  ELSE
    LET q == PropagateMimic(ns, self, position, 1)
        r == JointSetPosition(q.nodes[self].joint, position)
    IN
    IF r.res # Ok THEN [nodes |-> q.nodes, res |-> r.res]
    ELSE [nodes |-> [q.nodes EXCEPT ![self].joint = r.joint], res |-> q.res]

\* Node::set_position
SetPosition(ns, self, position) ==
  IF ns[self].mimic_parent # None THEN [nodes |-> ns, res |-> Ok]
  ELSE
    LET r == JointSetPosition(ns[self].joint, position) IN
    IF r.res # Ok THEN [nodes |-> ns, res |-> r.res]
    ELSE PropagateMimic([ns EXCEPT ![self].joint = r.joint], self, position, 1)

\* mutant: the child is brought to the value of its law at once
SetMimicParentSync(ns, self, parent, mimic) ==
  LET ns1 == [ns EXCEPT ![self].mimic_parent = Some(parent)]
      ns2 == [ns1 EXCEPT ![parent].mimic_children = Append(@, self)]
      ns3 == [ns2 EXCEPT ![self].mimic = Some(mimic)]
  IN  [ns3 EXCEPT ![self].joint =
         JointSetPositionUnchecked(@, MimicPosition(mimic, ns3[parent].joint.position))]

\* mutant: a stored position drops the cached pose
SetPositionUncheckedInvalidate(ns, self, position) ==
  [ns EXCEPT ![self].joint =
     [JointSetPositionUnchecked(@, position) EXCEPT !.world_transform = None]]

\* Node::set_position_unchecked
SetPositionUnchecked(ns, self, position) ==
  [ns EXCEPT ![self].joint = JointSetPositionUnchecked(@, position)]

\* mutant: the law is not stored on the child
SetMimicParentNoLaw(ns, self, parent, mimic) ==
  LET ns1 == [ns EXCEPT ![self].mimic_parent = Some(parent)]
  IN  [ns1 EXCEPT ![parent].mimic_children = Append(@, self)]

\* Node::set_mimic_parent: three statements, each with its own borrow
SetMimicParent(ns, self, parent, mimic) ==
  LET ns1 == [ns EXCEPT ![self].mimic_parent = Some(parent)]
      ns2 == [ns1 EXCEPT ![parent].mimic_children = Append(@, self)]
  IN  [ns2 EXCEPT ![self].mimic = Some(mimic)]

\* ---------------------------------------------------------------- borrows
\* The RefCell requests an operation makes, in program order: an event is
\* <<what, vertex, guard>>; a temporary guard lives for one statement.
BorrowMut(n, g) == <<"borrow_mut", n, g>>
Borrow(n, g) == <<"borrow", n, g>>
Release(n, g) == <<"drop", n, g>>
TempMut(n) == <<BorrowMut(n, "tmp"), Release(n, "tmp")>>
TempShared(n) == <<Borrow(n, "tmp"), Release(n, "tmp")>>

\* Node::set_parent
SetParentBorrows(self, parent) == TempMut(self) \o TempMut(parent)

\* connect!
RECURSIVE ConnectBorrows(_)
ConnectBorrows(seq) ==
  IF Len(seq) < 2 THEN <<>>
  ELSE SetParentBorrows(seq[2], seq[1]) \o ConnectBorrows(Tail(seq))

\* mutant: the guard of the first statement is kept to the end
SetMimicParentBorrowsHeld(self, parent) ==
  <<BorrowMut(self, "node")>> \o TempMut(parent) \o <<Release(self, "node")>>

\* Node::set_mimic_parent
SetMimicParentBorrows(self, parent) ==
  TempMut(self) \o TempMut(parent) \o TempMut(self)

\* Node::set_position, the loop from entry i on; `node` (line 185) is open.
\* A request that panics ends the trace.
RECURSIVE PropagateMimicBorrows(_, _, _, _)
PropagateMimicBorrows(ns, self, position, i) ==
  IF i > Len(ns[self].mimic_children) THEN <<Release(self, "node")>>
  ELSE
    LET child == ns[self].mimic_children[i]
        mimic == ns[child].mimic
    IN
    IF child = self THEN <<BorrowMut(child, "child_node")>>
    ELSE IF mimic = None
      THEN <<BorrowMut(child, "child_node"), Borrow(self, "joint")>>
    ELSE IF JointSetPosition(ns[child].joint,
                             MimicPosition(mimic[1], position)).res # Ok
      THEN <<BorrowMut(child, "child_node"), Release(child, "child_node"),
             Release(self, "node")>>
    ELSE <<BorrowMut(child, "child_node"), Release(child, "child_node")>>
         \o PropagateMimicBorrows(ns, self, position, i + 1)

\* Node::set_position
SetPositionBorrows(ns, self, position) ==
  IF ns[self].mimic_parent # None
     \/ JointSetPosition(ns[self].joint, position).res # Ok
    THEN <<BorrowMut(self, "node"), Release(self, "node")>>
  ELSE <<BorrowMut(self, "node")>>
       \o PropagateMimicBorrows(ns, self, position, 1)

\* the guards open after the first k events of trace t (by index)
OpenAfter(t, k) ==
  {i \in 1..k : /\ t[i][1] # "drop"
                /\ ~\E j \in (i + 1)..k : t[j] = Release(t[i][2], t[i][3])}
OpenVertices(t, k) == {t[i][2] : i \in OpenAfter(t, k)}
\* RefCell: borrow_mut needs no open guard, borrow no open mutable guard
ConflictAt(t, k) ==
  /\ t[k][1] # "drop"
  /\ \E i \in OpenAfter(t, k - 1) :
       /\ t[i][2] = t[k][2]
       /\ t[i][1] = "borrow_mut" \/ t[k][1] = "borrow_mut"
Conflict(t) == \E k \in 1..Len(t) : ConflictAt(t, k)

\* Node::set_offset
SetOffset(ns, self, trans) ==
  [ns EXCEPT ![self].joint = JointSetOffset(@, trans)]

\* Node::set_child_link
SetChildLink(ns, self, link) == [ns EXCEPT ![self].child_link = link]

\* Node::world_transform
WorldTransform(ns, self) == JointWorldTransform(ns[self].joint)

\* the vertices that own a strong reference to n (a Node in one of their lists)
Owners(ns, n) ==
  {o \in Nodes : \E i \in 1..Len(ns[o].children) : ns[o].children[i] = n}
  \cup
  {o \in Nodes :
     \E i \in 1..Len(ns[o].mimic_children) : ns[o].mimic_children[i] = n}

\* Rc: a vertex is freed once no handle and no list of a vertex that is not
\* freed refers to it; vertices on a reference cycle are never freed
RECURSIVE Freed(_, _, _)
Freed(ns, h, k) ==
  IF k = 0 THEN {}
  ELSE LET f == Freed(ns, h, k - 1) IN
       {n \in Nodes : n \notin h /\ Owners(ns, n) \subseteq f}

\* Weak::upgrade succeeds on the vertices that are not freed
Alive(ns, h) == Nodes \ Freed(ns, h, NumNodes)

\* mutant: a parent that is gone is answered by the identity
ParentWorldTransformLenient(ns, h, self) ==
  IF ns[self].parent = None THEN OptionRes(Some(Identity))
  ELSE IF ns[self].parent[1] \notin Alive(ns, h) THEN OptionRes(Some(Identity))
  ELSE OptionRes(JointWorldTransform(ns[ns[self].parent[1]].joint))

\* Node::parent_world_transform: parent.upgrade().unwrap() on the Weak
ParentWorldTransform(ns, h, self) ==
  IF ns[self].parent = None THEN OptionRes(Some(Identity))
  ELSE IF ns[self].parent[1] \notin Alive(ns, h) THEN Panic
  ELSE OptionRes(JointWorldTransform(ns[ns[self].parent[1]].joint))

\* one step of the update pass over a chain: the cached pose of a node is
\* the cached pose of its parent composed with the joint's local transform
UpdateTransform(ns, h, self) ==
  LET pwt == ParentWorldTransform(ns, h, self) IN
  IF pwt.kind # "some" THEN ns
  ELSE [ns EXCEPT ![self].joint =
          JointSetWorldTransform(@, pwt.from + JointLocalTransform(@))]

\* ------------------------------------------------------------ state machine
RECURSIVE SumLen(_, _, _)
SumLen(ns, field, n) ==
  IF n = 0 THEN 0
  ELSE SumLen(ns, field, n - 1)
       + (IF field = "children" THEN Len(ns[n].children)
                                ELSE Len(ns[n].mimic_children))

Call(op, self, arg, val, law, res) ==
  [op |-> op, self |-> self, arg |-> arg, val |-> val, law |-> law,
   res |-> res, pre |-> nodes]

\* JointBuilder::into_node for every vertex
IntoNode(r, n) == NewNode(NewJoint(n, OptionsOf(r, n)[1], OptionsOf(r, n)[2]))

Init ==
  /\ \E r \in Robots : nodes = [n \in Nodes |-> IntoNode(r, n)]
  /\ last = [op |-> "new", self |-> 0, arg |-> <<>>, val |-> 0,
             law |-> <<0, 0>>, res |-> Unit, pre |-> nodes]
  /\ calls = 0
  /\ held = Nodes

\* Node::from_rc over a vertex record assembled field by field (the fields
\* of NodeImpl are public): parent lists child among its mimic_children
\* while child carries no mimic law
InitRc ==
  /\ \E r \in Robots, parent \in Nodes, child \in Nodes :
     \E mp \in {None, Some(parent)} :
        LET ns == [n \in Nodes |-> IntoNode(r, n)]
            ns1 == [ns EXCEPT ![parent].mimic_children = <<child>>]
        IN  nodes = [ns1 EXCEPT ![child].mimic_parent = mp]
  /\ last = [op |-> "from_rc", self |-> 0, arg |-> <<>>, val |-> 0,
             law |-> <<0, 0>>, res |-> Unit, pre |-> nodes]
  /\ calls = 0
  /\ held = Nodes

Running == last.res.kind # "panic"

SetParentCall ==
  /\ Running
  /\ SumLen(nodes, "children", NumNodes) < MaxChildren
  /\ \E self \in held, parent \in held :
        /\ nodes' = SetParent(nodes, self, parent)
        /\ last' = Call("set_parent", self, <<parent>>, 0, <<0, 0>>, Unit)
  /\ UNCHANGED held

Chains == UNION {[1..k -> held] : k \in 2..MaxChain}

ConnectCall ==
  /\ Running
  /\ \E seq \in Chains :
        /\ SumLen(nodes, "children", NumNodes) + Len(seq) - 1 <= MaxChildren
        /\ nodes' = Connect(nodes, seq)
        /\ last' = Call("connect", 0, seq, 0, <<0, 0>>, Unit)
  /\ UNCHANGED held

SetMimicParentCall ==
  /\ Running
  /\ SumLen(nodes, "mimic_children", NumNodes) < MaxMimic
  /\ \E self \in held, parent \in held, mimic \in Laws :
        /\ nodes' = SetMimicParent(nodes, self, parent, mimic)
        /\ last' = Call("set_mimic_parent", self, <<parent>>, 0, mimic, Unit)
  /\ UNCHANGED held

SetPositionCall ==
  /\ Running
  /\ \E self \in held, position \in Vals :
        LET r == SetPosition(nodes, self, position) IN
        /\ nodes' = r.nodes
        /\ last' = Call("set_position", self, <<>>, position, <<0, 0>>, r.res)
  /\ UNCHANGED held

SetPositionUncheckedCall ==
  /\ Running
  /\ \E self \in held, position \in Vals :
        /\ nodes' = SetPositionUnchecked(nodes, self, position)
        /\ last' = Call("set_position_unchecked", self, <<>>, position,
                        <<0, 0>>, Unit)
  /\ UNCHANGED held

SetOffsetCall ==
  /\ Running
  /\ \E self \in held, trans \in Offsets :
        /\ nodes' = SetOffset(nodes, self, trans)
        /\ last' = Call("set_offset", self, <<>>, trans, <<0, 0>>, Unit)
  /\ UNCHANGED held

SetChildLinkCall ==
  /\ Running
  /\ \E self \in held, link \in Links :
        /\ nodes' = SetChildLink(nodes, self, link)
        /\ last' = Call("set_child_link", self, link, 0, <<0, 0>>, Unit)
  /\ UNCHANGED held

IsRootCall ==
  /\ Running
  /\ \E self \in held :
        last' = Call("is_root", self, <<>>, 0, <<0, 0>>,
                     BoolRes(IsRoot(nodes, self)))
  /\ UNCHANGED <<nodes, held>>

IsEndCall ==
  /\ Running
  /\ \E self \in held :
        last' = Call("is_end", self, <<>>, 0, <<0, 0>>,
                     BoolRes(IsEnd(nodes, self)))
  /\ UNCHANGED <<nodes, held>>

WorldTransformCall ==
  /\ Running
  /\ \E self \in held :
        last' = Call("world_transform", self, <<>>, 0, <<0, 0>>,
                     OptionRes(WorldTransform(nodes, self)))
  /\ UNCHANGED <<nodes, held>>

ParentWorldTransformCall ==
  /\ Running
  /\ \E self \in held :
        last' = Call("parent_world_transform", self, <<>>, 0, <<0, 0>>,
                     ParentWorldTransform(nodes, held, self))
  /\ UNCHANGED <<nodes, held>>

\* the update pass visits one node
UpdateTransformCall ==
  /\ Running
  /\ \E self \in held :
        /\ ParentWorldTransform(nodes, held, self).kind = "some"
        /\ nodes' = UpdateTransform(nodes, held, self)
        /\ last' = Call("update_transform", self, <<>>, 0, <<0, 0>>, Unit)
  /\ UNCHANGED held

\* the caller lets go of its handle of a vertex
DropHandle ==
  /\ Running
  /\ \E self \in held :
        /\ held' = held \ {self}
        /\ last' = Call("drop", self, <<>>, 0, <<0, 0>>, Unit)
  /\ UNCHANGED nodes

\* one more call, at most MaxCalls of them
Tick == calls < MaxCalls /\ calls' = calls + 1

\* every operation
Next ==
  \/ Tick /\ SetParentCall
  \/ Tick /\ ConnectCall
  \/ Tick /\ SetMimicParentCall
  \/ Tick /\ SetPositionCall
  \/ Tick /\ SetPositionUncheckedCall
  \/ Tick /\ SetOffsetCall
  \/ Tick /\ SetChildLinkCall
  \/ Tick /\ IsRootCall
  \/ Tick /\ IsEndCall
  \/ Tick /\ WorldTransformCall
  \/ Tick /\ ParentWorldTransformCall
  \/ Tick /\ UpdateTransformCall
  \/ Tick /\ DropHandle

Spec == Init /\ [][Next]_vars

\* the structural tree alone
NextTree ==
  \/ SetParentCall /\ UNCHANGED calls
  \/ ConnectCall /\ UNCHANGED calls
SpecTree == Init /\ [][NextTree]_vars

\* the mimic overlay and the positions
NextMimic ==
  \/ SetMimicParentCall /\ UNCHANGED calls
  \/ SetPositionCall /\ UNCHANGED calls
SpecMimic == Init /\ [][NextMimic]_vars

\* the same, from vertices wired by hand
SpecRc == InitRc /\ [][NextMimic]_vars

\* ----------------------------------------------------------------- claims
Pos(ns, n) == ns[n].joint.position
Listed(seq, x) == \E i \in 1..Len(seq) : seq[i] = x

\* what the last call was
IsSetPosition == last.op = "set_position"
P == last.self
V == last.val
Pre == last.pre
\* the mimic_children list the call walked, its entries and their targets
MC == Pre[P].mimic_children
Child(i) == MC[i]
Target(i) == MimicPosition(Pre[Child(i)].mimic[1], V)

\* a joint takes the value x: it is movable and x is within its limits
Accepts(j, x) ==
  /\ j.joint_type # "Fixed"
  /\ j.limits = None \/ (j.limits[1][1] <= x /\ x <= j.limits[1][2])
ErrorOf(j) == IF j.joint_type = "Fixed" THEN JointTypeError ELSE OutOfLimitError

\* the call got past the node's own joint and into the loop
Propagates ==
  /\ IsSetPosition
  /\ Pre[P].mimic_parent = None
  /\ Accepts(Pre[P].joint, V)
\* entries whose value the child's joint does not take
Rejecting == {i \in 1..Len(MC) : ~Accepts(Pre[Child(i)].joint, Target(i))}
FirstRejecting == CHOOSE i \in Rejecting : \A j \in Rejecting : i <= j

\* C1 (as stated): after P.set_position(p) returns success, P holds p and every
\* mimic-child C of P holds a*p + b for its law (a, b), for every node P.
C1_MimicLawEveryNode ==
  (IsSetPosition /\ last.res = Ok) =>
    /\ Pos(nodes, P) = V
    /\ \A i \in 1..Len(MC) :
         Pre[Child(i)].mimic # None => Pos(nodes, Child(i)) = Target(i)

\* C1 (amended): the same for every node P that has no mimic-parent; a node
\* with a mimic-parent returns success without driving anything.
C1_MimicLaw ==
  (IsSetPosition /\ last.res = Ok /\ Pre[P].mimic_parent = None) =>
    /\ Pos(nodes, P) = V
    /\ \A i \in 1..Len(MC) :
         Pre[Child(i)].mimic # None /\ Pos(nodes, Child(i)) = Target(i)

C1_Witness ==
  /\ IsSetPosition /\ last.res = Ok /\ Pre[P].mimic_parent = None
  /\ \E i \in 1..Len(MC) :
       /\ Pre[Child(i)].mimic = Some(<<2, 1>>)
       /\ Pos(nodes, Child(i)) # Pos(Pre, Child(i))
       /\ Pos(nodes, Child(i)) = 2 * V + 1

\* C2: set_position on a node that has a mimic-parent returns success and
\* changes no vertex at all, whatever the value and the joint type.
C2_MimicDrivenNoOp ==
  (IsSetPosition /\ Pre[P].mimic_parent # None) =>
    (last.res = Ok /\ nodes = Pre)

C2_Witness ==
  /\ IsSetPosition /\ Pre[P].mimic_parent # None
  /\ ~Accepts(Pre[P].joint, V)
  /\ Pos(Pre, P) # 0
  /\ Pos(nodes, P) = Pos(Pre, P)
  /\ Len(MC) > 0

C4_FixedAlwaysFails ==
  (IsSetPosition /\ Pre[P].joint.joint_type = "Fixed") =>
    last.res = JointTypeError

\* C4 (amended): it does so when the node has no mimic-parent.
C4_FixedFails ==
  (/\ IsSetPosition
   /\ Pre[P].joint.joint_type = "Fixed"
   /\ Pre[P].mimic_parent = None) =>
    last.res = JointTypeError

C4_Witness ==
  /\ IsSetPosition
  /\ Pre[P].joint.joint_type = "Fixed"
  /\ Pre[P].mimic_parent = None
  /\ Len(MC) > 0
  /\ last.res = JointTypeError

C8_SetParentAnyPair ==
  last.op = "set_parent" =>
    LET a == last.self
        b == last.arg[1]
    IN  /\ ~IsRoot(nodes, a)
        /\ nodes[b].children = Append(Pre[b].children, a)
        /\ IsRoot(nodes, b) <=> IsRoot(Pre, b)

\* C8 (amended): the same for all distinct a and b.
C8_SetParent ==
  (last.op = "set_parent" /\ last.self # last.arg[1]) =>
    LET a == last.self
        b == last.arg[1]
    IN  /\ ~IsRoot(nodes, a)
        /\ nodes[b].children = Append(Pre[b].children, a)
        /\ IsRoot(nodes, b) <=> IsRoot(Pre, b)

C8_Witness ==
  /\ last.op = "set_parent" /\ last.self # last.arg[1]
  /\ Len(Pre[last.arg[1]].children) = 2
  /\ IsRoot(Pre, last.self)
  /\ IsRoot(nodes, last.arg[1])

\* the calls the macro stands for, one after the other
RECURSIVE ManualSetParents(_, _, _)
ManualSetParents(ns, seq, i) ==
  IF i >= Len(seq) THEN ns
  ELSE ManualSetParents(SetParent(ns, seq[i + 1], seq[i]), seq, i + 1)

Fresh(ns, n) == ns[n] = NewNode(ns[n].joint)
FreshChain ==
  /\ last.op = "connect"
  /\ \A i, j \in 1..Len(last.arg) : i # j => last.arg[i] # last.arg[j]
  /\ \A i \in 1..Len(last.arg) : Fresh(Pre, last.arg[i])

\* C9: connect![n0 => ... => nk] over distinct fresh nodes gives the state
\* of the k set_parent calls: n0 a root, nk an end, the others neither, and
\* the children of n(i) are exactly [n(i+1)].
C9_Connect ==
  FreshChain =>
    LET seq == last.arg
        k == Len(last.arg)
    IN  /\ nodes = ManualSetParents(Pre, seq, 1)
        /\ IsRoot(nodes, seq[1]) /\ ~IsEnd(nodes, seq[1])
        /\ IsEnd(nodes, seq[k]) /\ ~IsRoot(nodes, seq[k])
        /\ \A i \in 2..(k - 1) : ~IsRoot(nodes, seq[i]) /\ ~IsEnd(nodes, seq[i])
        /\ \A i \in 1..(k - 1) : nodes[seq[i]].children = <<seq[i + 1]>>
        /\ \A i \in 2..k : nodes[seq[i]].parent = Some(seq[i - 1])

C9_Witness ==
  /\ FreshChain
  /\ Len(last.arg) = 3
  /\ nodes[last.arg[2]].children = <<last.arg[3]>>

\* the nodes below n in the children lists, at most d levels down
RECURSIVE Below(_, _, _)
Below(ns, n, d) ==
  IF d = 0 THEN {}
  ELSE LET kids == {ns[n].children[i] : i \in 1..Len(ns[n].children)}
       IN  kids \cup UNION {Below(ns, c, d - 1) : c \in kids}
\* the children lists keep every link ever made, so a cycle once made stays
NoCycle(ns) == \A n \in Nodes : n \notin Below(ns, n, NumNodes)
Occurrences(ns, c) ==
  Cardinality({<<p, i>> \in Nodes \X (1..MaxChildren + 1) :
                 i <= Len(ns[p].children) /\ ns[p].children[i] = c})

\* C10: as long as no cycle was made, c is listed in p.children iff the
\* parent reference of c points to p, and c is listed at most once.
C10_TreeConsistent ==
  NoCycle(nodes) =>
    /\ \A c, p \in Nodes :
         Listed(nodes[p].children, c) <=> nodes[c].parent = Some(p)
    /\ \A c \in Nodes : Occurrences(nodes, c) <= 1

\* the nodes that list c among their mimic_children
MimicListers(ns, c) == {p \in Nodes : Listed(ns[p].mimic_children, c)}

\* C11: a node is listed in the mimic_children of at most one node, the one
\* its mimic_parent reference points to, and P.set_position changes the
\* position of another node only if P is that node's mimic-parent.
C11_OneMimicParent ==
  /\ \A c \in Nodes :
       /\ Cardinality(MimicListers(nodes, c)) <= 1
       /\ \A p \in MimicListers(nodes, c) : nodes[c].mimic_parent = Some(p)
  /\ IsSetPosition =>
       \A n \in Nodes :
         (n # P /\ Pos(nodes, n) # Pos(Pre, n)) => Pre[n].mimic_parent = Some(P)

\* C14: P.set_position(v) changes the position of P and of the nodes listed
\* in P.mimic_children only; the mimic-children of those stay as they were.
C14_OneLevelDeep ==
  IsSetPosition =>
    \A n \in Nodes : (n # P /\ ~Listed(MC, n)) => Pos(nodes, n) = Pos(Pre, n)

C14_Witness ==
  /\ IsSetPosition /\ last.res = Ok
  /\ \E i \in 1..Len(MC) :
       /\ Pos(nodes, Child(i)) # Pos(Pre, Child(i))
       /\ \E g \in Nodes :
            /\ g # P /\ ~Listed(MC, g)
            /\ Listed(Pre[Child(i)].mimic_children, g)
            /\ Pre[g].mimic # None
            /\ Accepts(Pre[g].joint,
                       MimicPosition(Pre[g].mimic[1], Pos(nodes, Child(i))))
            /\ Pos(nodes, g) = Pos(Pre, g)
            /\ Pos(nodes, g) #
                 MimicPosition(Pre[g].mimic[1], Pos(nodes, Child(i)))

\* C15: when the node's own joint refuses the value (limits or Fixed), the
\* joint's error is returned and no vertex is changed.
C15_OwnFailureNoEffect ==
  (/\ IsSetPosition
   /\ Pre[P].mimic_parent = None
   /\ ~Accepts(Pre[P].joint, V)) =>
    /\ last.res = ErrorOf(Pre[P].joint)
    /\ nodes = Pre

C15_Witness ==
  /\ IsSetPosition
  /\ Pre[P].mimic_parent = None
  /\ ~Accepts(Pre[P].joint, V)
  /\ \E i \in 1..Len(MC) :
       /\ Accepts(Pre[Child(i)].joint, Target(i))
       /\ Target(i) # Pos(Pre, Child(i))
       /\ Pos(nodes, Child(i)) = Pos(Pre, Child(i))

\* C17: between operations a node carries a mimic law iff it has a
\* mimic-parent reference, every node listed in a mimic_children list
\* carries a law, and set_position never ends in its missing-law branch.
C17_LawIffMimicParent ==
  /\ \A n \in Nodes : nodes[n].mimic # None <=> nodes[n].mimic_parent # None
  /\ \A p \in Nodes : \A i \in 1..Len(nodes[p].mimic_children) :
       nodes[nodes[p].mimic_children[i]].mimic # None
  /\ last.res.kind \notin {"MimicError", "panic"}

C17_Witness ==
  /\ Propagates
  /\ Len(MC) >= 1
  /\ Pre[Child(1)].mimic_parent = Some(P)
  /\ Pos(nodes, Child(1)) = Target(1)
  /\ Pos(nodes, Child(1)) # Pos(Pre, Child(1))
  /\ last.res = Ok

\* the RefCell requests of the last call
LastBorrows ==
  CASE last.op = "set_parent" -> SetParentBorrows(last.self, last.arg[1])
    [] last.op = "connect" -> ConnectBorrows(last.arg)
    [] last.op = "set_mimic_parent" ->
         SetMimicParentBorrows(last.self, last.arg[1])
    [] last.op = "set_position" ->
         SetPositionBorrows(last.pre, last.self, last.val)
    [] last.op \in {"set_position_unchecked", "set_offset", "set_child_link"} ->
         TempMut(last.self)
    [] last.op \in {"is_root", "is_end", "world_transform"} ->
         TempShared(last.self)
    [] OTHER -> <<>>

\* C12: parent_world_transform() returns the identity for a root, and for
\* any other node the cached world_transform of the node its parent
\* reference points to; it never fails for a non-root node.
C12_ParentWorldTransform ==
  last.op = "parent_world_transform" =>
    IF IsRoot(Pre, P) THEN last.res = OptionRes(Some(Identity))
    ELSE last.res = OptionRes(WorldTransform(Pre, Pre[P].parent[1]))

\* the operations C13 is about
BorrowOps ==
  {"set_parent", "connect", "set_mimic_parent", "set_position",
   "set_position_unchecked", "set_offset", "set_child_link",
   "is_root", "is_end", "world_transform"}

\* C13: no operation requests a borrow of a vertex on which a conflicting
\* borrow is still open, and none of them ends in a panic.
C13_NoBorrowConflict ==
  last.op \in BorrowOps =>
    /\ ~Conflict(LastBorrows)
    /\ last.res.kind # "panic"

C13_Witness ==
  /\ last.op \in {"set_position", "set_mimic_parent"}
  /\ Listed(nodes[P].mimic_children, P)
  /\ Listed(nodes[P].children, P)
  /\ Len(LastBorrows) >= 2

\* C16: set_mimic_parent changes only c.mimic_parent, c.mimic and
\* p.mimic_children; set_parent changes no mimic field and no joint.
C16_MimicOrthogonal ==
  /\ last.op = "set_mimic_parent" =>
       \A n \in Nodes :
         /\ nodes[n].parent = Pre[n].parent
         /\ nodes[n].children = Pre[n].children
         /\ IsRoot(nodes, n) = IsRoot(Pre, n)
         /\ IsEnd(nodes, n) = IsEnd(Pre, n)
         /\ nodes[n].joint = Pre[n].joint
         /\ nodes[n].child_link = Pre[n].child_link
         /\ n # P => /\ nodes[n].mimic_parent = Pre[n].mimic_parent
                     /\ nodes[n].mimic = Pre[n].mimic
         /\ n # last.arg[1] => nodes[n].mimic_children = Pre[n].mimic_children
  /\ last.op = "set_parent" =>
       \A n \in Nodes :
         /\ nodes[n].mimic_parent = Pre[n].mimic_parent
         /\ nodes[n].mimic_children = Pre[n].mimic_children
         /\ nodes[n].mimic = Pre[n].mimic
         /\ nodes[n].joint = Pre[n].joint

C16_Witness ==
  /\ last.op = "set_mimic_parent"
  /\ last.arg[1] # P
  /\ Pre[P].mimic_parent = None
  /\ nodes[P].mimic_parent = Some(last.arg[1])
  /\ Pos(nodes, last.arg[1]) # 0
  /\ WorldTransform(nodes, last.arg[1]) # None
  /\ Pos(nodes, P) # MimicPosition(last.law, Pos(nodes, last.arg[1]))

\* the mutators of C18
Mutators ==
  {"set_position", "set_position_unchecked", "set_parent", "connect",
   "set_mimic_parent", "set_child_link"}

\* C18: a freshly built node has no cached world transform, and the
\* mutators leave every node's cached world transform as it was.
C18_CacheUntouched ==
  /\ last.op = "new" => \A n \in Nodes : WorldTransform(nodes, n) = None
  /\ last.op \in Mutators =>
       \A n \in Nodes : WorldTransform(nodes, n) = WorldTransform(Pre, n)

C18_Witness ==
  /\ last.op = "set_position_unchecked"
  /\ Pos(nodes, P) # Pos(Pre, P)
  /\ WorldTransform(Pre, P) # None
  /\ WorldTransform(nodes, P) = WorldTransform(Pre, P)
  /\ WorldTransform(nodes, P) # Some(JointLocalTransform(nodes[P].joint))

\* C19: during set_position no borrows are open on two different vertices
\* at once (the node's own guard is dropped before a mimic-child is borrowed).
C19_OneVertexOpen ==
  IsSetPosition =>
    \A k \in 1..Len(LastBorrows) :
      Cardinality(OpenVertices(LastBorrows, k)) <= 1

====
